---- MODULE Spec2Model ----
(***************************************************************************)
(* Model of the /create_campaign endpoint of main.py: one request walking  *)
(* through the balance check, the four creation calls against the remote   *)
(* platform, page resolution and the compensating DELETE.  Every remote    *)
(* call is a step; the remote platform answers nondeterministically.       *)
(* A second specification runs the media selection alone, a third the     *)
(* request normalizer, a fourth two requests against one account.          *)
(***************************************************************************)
EXTENDS Integers, Sequences, FiniteSets, TLC

VARIABLES pc, raw, data, total_budget_cents, campaign_id, daily_budget,
          ad_set_start, ad_set_end, page_id, ad_set_id, creative_spec,
          creative_id, ad_id, calls, result, account, inflight

vars == <<pc, raw, data, total_budget_cents, campaign_id, daily_budget,
          ad_set_start, ad_set_end, page_id, ad_set_id, creative_spec,
          creative_id, ad_id, calls, result, account, inflight>>

----------------------------------------------------------------------------
(* Bounds of the model *)

MaxDay == 2
MaxStrLen == 2
MaxCarousel == 3

(* Program constants *)

MinDailyBudget == 576
MinDurationHours == 24

----------------------------------------------------------------------------
(* Values *)

\* Python's None, as it prints when interpolated into a URL
None == "None"
\* a local variable that has not been assigned yet (the two integer locals,
\* total_budget_cents and daily_budget, hold 0 until they are assigned)
Unset == "unset"
\* read only through its kind
UnsetRec == [kind |-> "unset"]

\* strings of the media fields are sequences of characters
Chars == {" ", "u"}

RECURSIVE StrsUpTo(_)
StrsUpTo(n) ==
    IF n = 0 THEN {<<>>}
    ELSE LET shorter == StrsUpTo(n - 1)
         IN  shorter \cup {Append(s, c) : s \in shorter, c \in Chars}

RECURSIVE ListsUpTo(_, _)
ListsUpTo(S, n) ==
    IF n = 0 THEN {<<>>}
    ELSE LET shorter == ListsUpTo(S, n - 1)
         IN  shorter \cup {Append(l, s) : l \in shorter, s \in S}

\* str.strip(): drop leading and trailing blanks
RECURSIVE LStrip(_)
LStrip(s) == IF s # <<>> /\ Head(s) = " " THEN LStrip(Tail(s)) ELSE s

RECURSIVE RStrip(_)
RStrip(s) ==
    IF s # <<>> /\ s[Len(s)] = " " THEN RStrip(SubSeq(s, 1, Len(s) - 1)) ELSE s

strip(s) == RStrip(LStrip(s))

\* truthiness of a Python str
Truthy(s) == s # <<>>

----------------------------------------------------------------------------
(* Requests *)

\* a date string: either MM/DD/YYYY naming day number `day', or unparseable
Dates == [valid : {TRUE}, day : 0..MaxDay] \cup {[valid |-> FALSE, day |-> 0]}

\* budget as the JSON body carries it: a number, held here in cents so that
\* int(data.budget * 100) is the number itself, or a string of characters
Str(chars) == [kind |-> "str", chars |-> chars]

Budgets == [kind : {"num"}, cents : {0, 500, 576, 1200}]
             \cup {Str(<<"a", "b", "c">>)}

MakeRaw(b, d1, d2, v, i, si, c) ==
    ("budget" :> b) @@ ("initial_date" :> d1) @@ ("final_date" :> d2) @@
    ("Video" :> v) @@ ("image" :> i) @@ ("Single Image" :> si) @@
    ("carrossel" :> c)

\* media fields <<Video, image, Single Image, carrossel>> of the pipeline
\* specification: one request per branch of the selection, and one that
\* fills two fields
PipelineMedia ==
    {<< <<>>, <<>>, <<>>, <<>> >>,
     << <<"u">>, <<"u">>, <<>>, <<>> >>,
     << <<>>, <<"u">>, <<>>, <<>> >>,
     << <<>>, <<>>, <<"u">>, <<>> >>,
     << <<>>, <<>>, <<>>, << <<"u">>, <<"w">> >> >>}

PipelineRequests ==
    {MakeRaw(b, d1, d2, m[1], m[2], m[3], m[4]) :
        b \in Budgets, d1 \in Dates, d2 \in Dates, m \in PipelineMedia}

\* the requests of the media specification: every media field varies
CarouselItems == {<<" ">>, <<"u">>, <<"w", " ">>}

MediaRequests ==
    {MakeRaw([kind |-> "num", cents |-> 1200],
             [valid |-> TRUE, day |-> 0], [valid |-> TRUE, day |-> 1],
             v, i, si, c) :
        v \in StrsUpTo(MaxStrLen), i \in StrsUpTo(MaxStrLen),
        si \in {<<>>, <<"u">>}, c \in ListsUpTo(CarouselItems, MaxCarousel)}

\* the requests of the normalizer specification: the dates and the media
\* are fixed, the objective, the budget string and the salaries vary
Objectives ==
    {"Sales", "Vendas", "Promover site/app", "Leads", "Alcance de marca",
     "OUTCOME_SALES", "Brand awareness"}

BudgetStrings ==
    {<<"$", "1", ",", "2", "3", "4", ".", "5", "6">>,
     <<"$", "1", "2", ".", "0", "0">>,
     <<"6", ",", "5", "0">>,
     <<"$", " ", "5", ".", "0", "0">>,
     <<"a", "b", "c">>,
     <<>>}

Absent == [present |-> FALSE, chars |-> <<>>]
Given(chars) == [present |-> TRUE, chars |-> chars]

MinSalaries == {Absent, Given(<<>>), Given(<<"2", ",", "5">>), Given(<<"x">>)}
MaxSalaries == {Absent, Given(<<"$", "9">>), Given(<<"1", ".", "2", ".", "3">>)}

WithField(r, key, f) == IF f.present THEN r @@ (key :> f.chars) ELSE r

NormalizeRequests ==
    {WithField(WithField(
         MakeRaw(Str(b), [valid |-> TRUE, day |-> 0], [valid |-> TRUE, day |-> 1],
                 <<>>, <<>>, <<>>, <<>>) @@ ("objective" :> o),
         "min_salary", mn), "max_salary", mx) :
        o \in Objectives, b \in BudgetStrings,
        mn \in MinSalaries, mx \in MaxSalaries}

NoData == [parsed |-> FALSE]

\* the specifications of a single request leave the account of the platform
\* and the other requests out
NoAccount == [spend_cap |-> <<>>, amount_spent |-> <<>>, campaigns |-> {}]
NoRequests == <<>>

----------------------------------------------------------------------------
(* Request normalizer *)

\* v.replace("$", "").replace(" ", "").replace(",", ".")
RECURSIVE Clean(_)
Clean(s) ==
    IF s = <<>> THEN <<>>
    ELSE IF Head(s) \in {"$", " "} THEN Clean(Tail(s))
    ELSE IF Head(s) = "," THEN <<".">> \o Clean(Tail(s))
    ELSE <<Head(s)>> \o Clean(Tail(s))

IsDigit(c) == c \in {"0", "1", "2", "3", "4", "5", "6", "7", "8", "9"}

DigitVal(c) ==
    CASE c = "0" -> 0 [] c = "1" -> 1 [] c = "2" -> 2 [] c = "3" -> 3
      [] c = "4" -> 4 [] c = "5" -> 5 [] c = "6" -> 6 [] c = "7" -> 7
      [] c = "8" -> 8 [] c = "9" -> 9

Dots(s) == {k \in 1..Len(s) : s[k] = "."}

\* float(s) on a string of digits and points: it needs a digit and takes at
\* most one point
FloatParses(s) ==
    /\ \A k \in 1..Len(s) : IsDigit(s[k]) \/ s[k] = "."
    /\ \E k \in 1..Len(s) : IsDigit(s[k])
    /\ Cardinality(Dots(s)) <= 1

RECURSIVE DigitsValue(_)
DigitsValue(s) ==
    IF s = <<>> THEN 0
    ELSE 10 * DigitsValue(SubSeq(s, 1, Len(s) - 1)) + DigitVal(s[Len(s)])

\* float(s) in hundredths, the further decimals cut off (the values of the
\* model are those where the binary float and the decimal agree)
FloatCents(s) ==
    LET p == IF Dots(s) = {} THEN Len(s) + 1 ELSE CHOOSE k \in Dots(s) : TRUE
        whole == SubSeq(s, 1, p - 1)
        frac == SubSeq(s, p + 1, Len(s)) \o <<"0", "0">>
    IN  100 * DigitsValue(whole) + DigitsValue(SubSeq(frac, 1, 2))

\* parse_budget: a string that float() rejects raises ValueError
BudgetParses(b) == b.kind = "num" \/ FloatParses(Clean(b.chars))

parse_budget(b) == IF b.kind = "num" THEN b.cents ELSE FloatCents(Clean(b.chars))

\* the mapping of validate_objective with the Sales row left out
validate_objective_NoSales(v) ==
    CASE v = "Promover site/app" -> "OUTCOME_TRAFFIC"
      [] v = "Leads" -> "OUTCOME_LEADS"
      [] v = "Alcance de marca" -> "OUTCOME_AWARENESS"
      [] OTHER -> v

\* validate_objective: four labels are mapped, anything else is returned
validate_objective(v) ==
    CASE v = "Vendas" -> "OUTCOME_SALES"
      [] v = "Promover site/app" -> "OUTCOME_TRAFFIC"
      [] v = "Leads" -> "OUTCOME_LEADS"
      [] v = "Alcance de marca" -> "OUTCOME_AWARENESS"
      [] OTHER -> v

\* parse_min_salary / parse_max_salary: "" gives the default, a string that
\* float() rejects raises ValueError
SalaryParses(v) == v = <<>> \/ FloatParses(Clean(v))

parse_salary(v, default) == IF v = <<>> THEN default ELSE FloatCents(Clean(v))

\* the ValueError messages the validators raise for a body (the validator
\* of a field runs only when the body has the field)
BudgetErrors(r) ==
    IF BudgetParses(r["budget"]) THEN {} ELSE {<<"Orcamento invalido">>}

MinSalaryErrors(r) ==
    IF "min_salary" \in DOMAIN r /\ ~SalaryParses(r["min_salary"])
    THEN {<<"min_salary invalido: ", r["min_salary"]>>} ELSE {}

MaxSalaryErrors(r) ==
    IF "max_salary" \in DOMAIN r /\ ~SalaryParses(r["max_salary"])
    THEN {<<"max_salary invalido: ", r["max_salary"]>>} ELSE {}

ValidatorErrors(r) == BudgetErrors(r) \cup MinSalaryErrors(r) \cup MaxSalaryErrors(r)

\* CampaignRequest(**data_dict): fields are filled from their aliases, a
\* field the body lacks takes its default without its validator being run
CampaignRequest(r) ==
    [parsed |-> TRUE,
     objective |-> IF "objective" \in DOMAIN r
                   THEN validate_objective(r["objective"])
                   ELSE "OUTCOME_TRAFFIC",
     min_salary |-> IF "min_salary" \in DOMAIN r
                    THEN parse_salary(r["min_salary"], 200000) ELSE 0,
     max_salary |-> IF "max_salary" \in DOMAIN r
                    THEN parse_salary(r["max_salary"], 2000000) ELSE 0,
     budget |-> parse_budget(r["budget"]),
     initial_date |-> r["initial_date"],
     final_date |-> r["final_date"],
     single_image |-> r["Single Image"],
     image |-> r["image"],
     carrossel |-> r["carrossel"],
     video |-> r["Video"]]

----------------------------------------------------------------------------
(* Results and the log of remote calls *)

NoResult == [status |-> 0, detail |-> <<>>]

HTTPException(code, detail) == [status |-> code, detail |-> detail]

\* an exception no handler catches: the framework answers 500
Unhandled == [status |-> 500, detail |-> <<"Internal Server Error">>]

Call(op, arg, outcome) == [op |-> op, arg |-> arg, outcome |-> outcome]

----------------------------------------------------------------------------
Init ==
    /\ pc = "parse"
    /\ raw \in PipelineRequests
    /\ data = NoData
    /\ total_budget_cents = 0
    /\ campaign_id = Unset
    /\ daily_budget = 0
    /\ ad_set_start = UnsetRec
    /\ ad_set_end = UnsetRec
    /\ page_id = Unset
    /\ ad_set_id = Unset
    /\ creative_spec = UnsetRec
    /\ creative_id = Unset
    /\ ad_id = Unset
    /\ calls = <<>>
    /\ result = NoResult
    /\ account = NoAccount
    /\ inflight = NoRequests

\* the state before a body of the normalizer specification is read
NormInit ==
    /\ pc = "parse"
    /\ raw \in NormalizeRequests
    /\ data = NoData
    /\ total_budget_cents = 0
    /\ campaign_id = Unset
    /\ daily_budget = 0
    /\ ad_set_start = UnsetRec
    /\ ad_set_end = UnsetRec
    /\ page_id = Unset
    /\ ad_set_id = Unset
    /\ creative_spec = UnsetRec
    /\ creative_id = Unset
    /\ ad_id = Unset
    /\ calls = <<>>
    /\ result = NoResult
    /\ account = NoAccount
    /\ inflight = NoRequests

\* lines 212-231: read the body, build the CampaignRequest, budget in cents
ParseRequest ==
    /\ pc = "parse"
    /\ IF ValidatorErrors(raw) = {}
       THEN /\ data' = CampaignRequest(raw)
            /\ total_budget_cents' = data'.budget
            /\ pc' = "balance"
            /\ UNCHANGED result
       ELSE /\ result' = HTTPException(400,
                    <<"Erro ao ler ou parsear o corpo da requisicao">>)
            /\ pc' = "done"
            /\ UNCHANGED <<data, total_budget_cents>>
    /\ UNCHANGED <<account, inflight>>
    /\ UNCHANGED <<raw, campaign_id, daily_budget, ad_set_start, ad_set_end,
                   page_id, ad_set_id, creative_spec, creative_id, ad_id,
                   calls>>

----------------------------------------------------------------------------
(* Balance guard *)

\* int(s) succeeds on a non-empty run of decimal digits
IntParses(s) == s # <<>> /\ \A k \in 1..Len(s) : IsDigit(s[k])

RECURSIVE IntOf(_)
IntOf(s) ==
    IF s = <<>> THEN 0
    ELSE 10 * IntOf(SubSeq(s, 1, Len(s) - 1)) + DigitVal(s[Len(s)])

\* the JSON object of a balance answer: a function from the keys it has
CapValues == {<<"1", "2", "0", "0">>, <<"1", "x">>}
SpentValues == {<<"0">>, <<"7", "0", "0">>, <<>>}

BalanceJson ==
    {<<>>}
      \cup {("spend_cap" :> c) : c \in CapValues}
      \cup {("amount_spent" :> a) : a \in SpentValues}
      \cup {("spend_cap" :> c) @@ ("amount_spent" :> a) :
                c \in CapValues, a \in SpentValues}

ErrorStatuses == {403}

\* what requests.get can give back for the balance URL
BalanceResponses ==
    {[kind |-> "transport", status |-> 0, json |-> <<>>],
     [kind |-> "notjson", status |-> 200, json |-> <<>>]}
      \cup [kind : {"json"}, status : ErrorStatuses, json : {<<>>}]
      \cup [kind : {"json"}, status : {200}, json : BalanceJson]

InsufficientFunds ==
    HTTPException(402, <<"Fundos insuficientes para criar a campanha">>)

\* check_account_balance failing open: an answer without the two fields, or
\* with a value int() rejects, lets the request pass
check_account_balance_FailOpen(response, spend_cap) ==
    IF response.kind = "transport" THEN Unhandled
    ELSE IF response.status = 200
    THEN IF response.kind = "notjson" THEN Unhandled
         ELSE LET d == response.json IN
              IF "spend_cap" \in DOMAIN d /\ "amount_spent" \in DOMAIN d
                 /\ IntParses(d["spend_cap"]) /\ IntParses(d["amount_spent"])
              THEN IF IntOf(d["spend_cap"]) - IntOf(d["amount_spent"]) < spend_cap
                   THEN InsufficientFunds
                   ELSE NoResult
              ELSE NoResult
    ELSE HTTPException(response.status, <<"Erro ao verificar o saldo da conta">>)

\* check_account_balance comparing the cap alone, amount_spent forgotten
check_account_balance_IgnoreSpent(response, spend_cap) ==
    IF response.kind = "transport" THEN Unhandled
    ELSE IF response.status = 200
    THEN IF response.kind = "notjson" THEN Unhandled
         ELSE LET d == response.json IN
              IF "spend_cap" \in DOMAIN d /\ "amount_spent" \in DOMAIN d
              THEN IF ~(IntParses(d["spend_cap"]) /\ IntParses(d["amount_spent"]))
                   THEN InsufficientFunds
                   ELSE IF IntOf(d["spend_cap"]) < spend_cap
                        THEN InsufficientFunds
                        ELSE NoResult
              ELSE InsufficientFunds
    ELSE HTTPException(response.status, <<"Erro ao verificar o saldo da conta">>)

\* check_account_balance: the result it raises, or NoResult when it returns
check_account_balance(response, spend_cap) ==
    IF response.kind = "transport" THEN Unhandled
    ELSE IF response.status = 200
    THEN IF response.kind = "notjson" THEN Unhandled
         ELSE LET d == response.json IN
              IF "spend_cap" \in DOMAIN d /\ "amount_spent" \in DOMAIN d
              THEN IF ~(IntParses(d["spend_cap"]) /\ IntParses(d["amount_spent"]))
                   THEN InsufficientFunds
                   ELSE LET available_balance ==
                                IntOf(d["spend_cap"]) - IntOf(d["amount_spent"])
                        IN  IF available_balance < spend_cap
                            THEN InsufficientFunds
                            ELSE NoResult
              ELSE InsufficientFunds
    ELSE HTTPException(response.status, <<"Erro ao verificar o saldo da conta">>)

\* line 234: the balance check, before anything is created
CheckBalance ==
    /\ pc = "balance"
    /\ \E response \in BalanceResponses :
         LET raised == check_account_balance(response, total_budget_cents) IN
         /\ calls' = Append(calls, Call("balance", total_budget_cents, response))
         /\ IF raised = NoResult
            THEN pc' = "campaign" /\ UNCHANGED result
            ELSE pc' = "done" /\ result' = raised
    /\ UNCHANGED <<account, inflight>>
    /\ UNCHANGED <<raw, data, total_budget_cents, campaign_id, daily_budget,
                   ad_set_start, ad_set_end, page_id, ad_set_id, creative_spec,
                   creative_id, ad_id>>

----------------------------------------------------------------------------
(* Answers of the remote platform to a creation POST and to a DELETE *)

\* requests.post raises (transport), or answers with an error status or a
\* success status; the body is JSON with or without the expected field, or
\* no JSON at all
PostResponses ==
    {[kind |-> "transport", body |-> "none"]}
      \cup [kind : {"http_error"}, body : {"user_msg", "no_user_msg", "notjson"}]
      \cup [kind : {"ok"}, body : {"id", "no_id", "notjson"}]

DeleteResponses == {"ok", "error_status", "transport"}

\* extract_fb_error: error.error_user_msg, or one of two fixed texts
extract_fb_error(response) ==
    CASE response.body = "user_msg" -> "error_user_msg of the platform"
      [] response.body = "no_user_msg" ->
            "Erro desconhecido ao comunicar com a API do Facebook"
      [] OTHER -> "Erro processando a resposta da API do Facebook"

\* result.get("id") of a success answer
GetId(response, fresh) == IF response.body = "id" THEN fresh ELSE None

\* an except branch that deletes and then answers as if nothing had failed
RollbackThenRaise_Swallowed(del, stage, response) ==
    [status |-> 200, detail |-> <<"success">>]

\* the except branch of a creation step: requests.delete(rollback_url), then
\* raise HTTPException(400, ...); a delete that raises replaces that error
RollbackThenRaise(del, stage, response) ==
    IF del = "transport" THEN Unhandled
    ELSE HTTPException(400, <<stage, extract_fb_error(response)>>)

----------------------------------------------------------------------------
(* Step 1: campaign *)

campaign_payload == [objective |-> data.objective, status |-> "ACTIVE"]

\* the campaign step with the except branch of the later steps: an HTTP
\* error issues a DELETE before the error is raised
CreateCampaign_RollsBack ==
    /\ pc = "campaign"
    /\ \E response \in PostResponses :
         LET post == Call("campaign", campaign_payload, response) IN
         CASE response.kind = "http_error" ->
                \E del \in DeleteResponses :
                   /\ calls' = calls \o <<post, Call("delete", campaign_id, del)>>
                   /\ result' = HTTPException(400,
                          <<"Erro ao criar campanha: ", extract_fb_error(response)>>)
                   /\ pc' = "done"
                   /\ UNCHANGED campaign_id
           [] response.kind = "ok" /\ response.body # "notjson" ->
                /\ calls' = Append(calls, post)
                /\ campaign_id' = GetId(response, "campaign_1")
                /\ pc' = "schedule"
                /\ UNCHANGED result
           [] OTHER ->
                /\ calls' = Append(calls, post)
                /\ result' = Unhandled
                /\ pc' = "done"
                /\ UNCHANGED campaign_id
    /\ UNCHANGED <<account, inflight>>
    /\ UNCHANGED <<raw, data, total_budget_cents, daily_budget, ad_set_start,
                   ad_set_end, page_id, ad_set_id, creative_spec, creative_id,
                   ad_id>>

\* lines 246-257
CreateCampaign ==
    /\ pc = "campaign"
    /\ \E response \in PostResponses :
         /\ calls' = Append(calls, Call("campaign", campaign_payload, response))
         /\ CASE response.kind = "transport" ->
                    /\ result' = Unhandled
                    /\ pc' = "done"
                    /\ UNCHANGED campaign_id
              [] response.kind = "http_error" ->
                    /\ result' = HTTPException(400,
                           <<"Erro ao criar campanha: ", extract_fb_error(response)>>)
                    /\ pc' = "done"
                    /\ UNCHANGED campaign_id
              [] response.kind = "ok" /\ response.body = "notjson" ->
                    /\ result' = Unhandled
                    /\ pc' = "done"
                    /\ UNCHANGED campaign_id
              [] OTHER ->
                    /\ campaign_id' = GetId(response, "campaign_1")
                    /\ pc' = "schedule"
                    /\ UNCHANGED result
    /\ UNCHANGED <<account, inflight>>
    /\ UNCHANGED <<raw, data, total_budget_cents, daily_budget, ad_set_start,
                   ad_set_end, page_id, ad_set_id, creative_spec, creative_id,
                   ad_id>>

----------------------------------------------------------------------------
(* Step 2: schedule *)

\* datetime.strptime(s, "%m/%d/%Y") raises on a string of another shape
StrptimeOk(d) == d.valid

timestamp(d) == d.day * 24 * 3600

\* the except branch leaving the daily budget at nothing
Fallback_NoBudget(d, total) ==
    [daily_budget |-> 0,
     ad_set_start |-> [kind |-> "raw", unix |-> 0, raw |-> d.initial_date],
     ad_set_end |-> [kind |-> "raw", unix |-> 0, raw |-> d.final_date]]

\* lines 282-286: the raw date strings and the whole budget
Fallback(d, total) ==
    [daily_budget |-> total,
     ad_set_start |-> [kind |-> "raw", unix |-> 0, raw |-> d.initial_date],
     ad_set_end |-> [kind |-> "raw", unix |-> 0, raw |-> d.final_date]]

\* lines 260-287: the try block and its except Exception, which also
\* catches the two HTTPException raised inside the try block
ComputeScheduleOf(d, total) ==
    IF ~(StrptimeOk(d.initial_date) /\ StrptimeOk(d.final_date))
    THEN Fallback(d, total)
    ELSE LET diff == d.final_date.day - d.initial_date.day
             num_days == IF diff <= 0 THEN 1 ELSE diff
             daily == total \div num_days
         IN  IF daily < MinDailyBudget
             THEN Fallback(d, total)
             ELSE IF diff * 24 < MinDurationHours
             THEN Fallback(d, total)
             ELSE [daily_budget |-> daily,
                   ad_set_start |-> [kind |-> "unix",
                                     unix |-> timestamp(d.initial_date),
                                     raw |-> d.initial_date],
                   ad_set_end |-> [kind |-> "unix",
                                   unix |-> timestamp(d.final_date),
                                   raw |-> d.final_date]]

ComputeSchedule ==
    /\ pc = "schedule"
    /\ LET s == ComputeScheduleOf(data, total_budget_cents) IN
         /\ daily_budget' = s.daily_budget
         /\ ad_set_start' = s.ad_set_start
         /\ ad_set_end' = s.ad_set_end
    /\ pc' = "page"
    /\ UNCHANGED <<account, inflight>>
    /\ UNCHANGED <<raw, data, total_budget_cents, campaign_id, page_id,
                   ad_set_id, creative_spec, creative_id, ad_id, calls, result>>

----------------------------------------------------------------------------
(* Page resolver *)

\* the JSON object of a page listing: with or without "data", a list of
\* page objects with or without "id"
PageLists ==
    {<<>>, <<("id" :> "page_1"), ("id" :> "page_2")>>, << <<>> >>}

PagesJson == {<<>>} \cup {("data" :> l) : l \in PageLists}

PagesResponses ==
    {[kind |-> "transport", status |-> 0, json |-> <<>>],
     [kind |-> "notjson", status |-> 200, json |-> <<>>]}
      \cup [kind : {"json"}, status : ErrorStatuses, json : {<<>>}]
      \cup [kind : {"json"}, status : {200}, json : PagesJson]

NoPage == HTTPException(533, <<"Nenhuma pagina disponivel para uso">>)

\* get_page_id without the emptiness test: an empty list yields no page id
\* and the request goes on
get_page_id_NoEmptyCheck(response) ==
    IF response.kind = "transport"
    THEN [raised |-> Unhandled, page |-> Unset]
    ELSE IF response.status = 200
    THEN IF response.kind = "notjson"
         THEN [raised |-> Unhandled, page |-> Unset]
         ELSE LET d == response.json IN
              IF "data" \in DOMAIN d
              THEN IF Len(d["data"]) = 0
                   THEN [raised |-> NoResult, page |-> None]
                   ELSE IF "id" \in DOMAIN d["data"][1]
                   THEN [raised |-> NoResult, page |-> d["data"][1]["id"]]
                   ELSE [raised |-> Unhandled, page |-> Unset]
              ELSE [raised |-> NoPage, page |-> Unset]
    ELSE [raised |-> HTTPException(response.status,
                        <<"Erro ao buscar paginas disponiveis">>),
          page |-> Unset]

\* get_page_id: what it raises (NoResult when it returns) and what it returns
get_page_id(response) ==
    IF response.kind = "transport"
    THEN [raised |-> Unhandled, page |-> Unset]
    ELSE IF response.status = 200
    THEN IF response.kind = "notjson"
         THEN [raised |-> Unhandled, page |-> Unset]
         ELSE LET d == response.json IN
              IF "data" \in DOMAIN d /\ Len(d["data"]) > 0
              THEN IF "id" \in DOMAIN d["data"][1]
                   THEN [raised |-> NoResult, page |-> d["data"][1]["id"]]
                   ELSE [raised |-> Unhandled, page |-> Unset]
              ELSE [raised |-> NoPage, page |-> Unset]
    ELSE [raised |-> HTTPException(response.status,
                        <<"Erro ao buscar paginas disponiveis">>),
          page |-> Unset]

\* line 317: no handler around the call, whatever it raises is surfaced as is
GetPage ==
    /\ pc = "page"
    /\ \E response \in PagesResponses :
         LET r == get_page_id(response) IN
         /\ calls' = Append(calls, Call("pages", "token", response))
         /\ IF r.raised = NoResult
            THEN /\ page_id' = r.page
                 /\ pc' = "adset"
                 /\ UNCHANGED result
            ELSE /\ result' = r.raised
                 /\ pc' = "done"
                 /\ UNCHANGED page_id
    /\ UNCHANGED <<account, inflight>>
    /\ UNCHANGED <<raw, data, total_budget_cents, campaign_id, daily_budget,
                   ad_set_start, ad_set_end, ad_set_id, creative_spec,
                   creative_id, ad_id>>

----------------------------------------------------------------------------
(* Step 3: ad set *)

\* lines 290-295
optimization_goal(objective) ==
    IF objective = "OUTCOME_AWARENESS" THEN "IMPRESSIONS"
    ELSE IF objective \in {"OUTCOME_TRAFFIC", "OUTCOME_LEADS", "OUTCOME_SALES"}
    THEN "LINK_CLICKS"
    ELSE "REACH"

ad_set_payload ==
    [campaign_id |-> campaign_id,
     daily_budget |-> daily_budget,
     optimization_goal |-> optimization_goal(data.objective),
     start_time |-> ad_set_start,
     end_time |-> ad_set_end,
     dsa_beneficiary |-> page_id,
     dsa_payor |-> page_id]

\* the rollback DELETE of an except branch, as a logged call
Rollback(del) == Call("delete", campaign_id, del)

\* lines 339-353
CreateAdSet ==
    /\ pc = "adset"
    /\ \E response \in PostResponses :
         LET post == Call("adset", ad_set_payload, response) IN
         CASE response.kind = "transport" ->
                /\ calls' = Append(calls, post)
                /\ result' = Unhandled
                /\ pc' = "done"
                /\ UNCHANGED ad_set_id
           [] response.kind = "http_error" ->
                \E del \in DeleteResponses :
                   /\ calls' = calls \o <<post, Rollback(del)>>
                   /\ result' = RollbackThenRaise(del, "Erro ao criar Ad Set: ",
                                                  response)
                   /\ pc' = "done"
                   /\ UNCHANGED ad_set_id
           [] response.kind = "ok" /\ response.body = "notjson" ->
                /\ calls' = Append(calls, post)
                /\ result' = Unhandled
                /\ pc' = "done"
                /\ UNCHANGED ad_set_id
           [] OTHER ->
                /\ calls' = Append(calls, post)
                /\ ad_set_id' = GetId(response, "adset_1")
                /\ pc' = "creative"
                /\ UNCHANGED result
    /\ UNCHANGED <<account, inflight>>
    /\ UNCHANGED <<raw, data, total_budget_cents, campaign_id, daily_budget,
                   ad_set_start, ad_set_end, page_id, creative_spec,
                   creative_id, ad_id>>

----------------------------------------------------------------------------
(* Media resolver and step 5: creative *)

default_link == "default_link"
default_message == "default_message"
fallback_image == <<"placeholder">>

\* any(url.strip() for url in l)
AnyNonBlank(l) == \E k \in 1..Len(l) : Truthy(strip(l[k]))

\* the loop building the list back to front
RECURSIVE child_attachments_Reversed(_)
child_attachments_Reversed(l) ==
    IF l = <<>> THEN <<>>
    ELSE LET rest == child_attachments_Reversed(Tail(l)) IN
         IF Truthy(strip(Head(l)))
         THEN rest \o <<[link |-> default_link, picture |-> strip(Head(l)),
                         message |-> default_message]>>
         ELSE rest

\* the loop of lines 389-397: one attachment per non-blank URL, in order
RECURSIVE child_attachments(_)
child_attachments(l) ==
    IF l = <<>> THEN <<>>
    ELSE LET rest == child_attachments(Tail(l)) IN
         IF Truthy(strip(Head(l)))
         THEN <<[link |-> default_link, picture |-> strip(Head(l)),
                 message |-> default_message]>> \o rest
         ELSE rest

\* the selection with the first two tests swapped: image before video
SelectMedia_ImageFirst(d) ==
    IF Truthy(strip(d.image))
    THEN "link_data" :> [message |-> default_message, link |-> default_link,
                         picture |-> strip(d.image)]
    ELSE IF Truthy(strip(d.video))
    THEN "video_data" :> [video_id |-> strip(d.video), title |-> "campaign_name",
                          message |-> default_message]
    ELSE IF Truthy(d.carrossel) /\ AnyNonBlank(d.carrossel)
    THEN "link_data" :> [child_attachments |-> child_attachments(d.carrossel),
                         message |-> default_message, link |-> default_link]
    ELSE "link_data" :> [message |-> default_message, link |-> default_link,
                         picture |-> fallback_image]

\* lines 369-414: video > image > carrossel > placeholder
SelectMedia(d) ==
    IF Truthy(strip(d.video))
    THEN "video_data" :> [video_id |-> strip(d.video), title |-> "campaign_name",
                          message |-> default_message]
    ELSE IF Truthy(strip(d.image))
    THEN "link_data" :> [message |-> default_message, link |-> default_link,
                         picture |-> strip(d.image)]
    ELSE IF Truthy(d.carrossel) /\ AnyNonBlank(d.carrossel)
    THEN "link_data" :> [child_attachments |-> child_attachments(d.carrossel),
                         message |-> default_message, link |-> default_link]
    ELSE "link_data" :> [message |-> default_message, link |-> default_link,
                         picture |-> fallback_image]

ad_creative_payload(spec) == ("page_id" :> page_id) @@ spec

\* lines 357-444
CreateCreative ==
    /\ pc = "creative"
    /\ creative_spec' = SelectMedia(data)
    /\ \E response \in PostResponses :
         LET post == Call("creative", ad_creative_payload(creative_spec'), response) IN
         CASE response.kind = "transport" ->
                /\ calls' = Append(calls, post)
                /\ result' = Unhandled
                /\ pc' = "done"
                /\ UNCHANGED creative_id
           [] response.kind = "http_error" ->
                \E del \in DeleteResponses :
                   /\ calls' = calls \o <<post, Rollback(del)>>
                   /\ result' = RollbackThenRaise(del, "Erro ao criar Ad Creative: ",
                                                  response)
                   /\ pc' = "done"
                   /\ UNCHANGED creative_id
           [] response.kind = "ok" /\ response.body = "notjson" ->
                /\ calls' = Append(calls, post)
                /\ result' = Unhandled
                /\ pc' = "done"
                /\ UNCHANGED creative_id
           [] OTHER ->
                /\ calls' = Append(calls, post)
                /\ creative_id' = GetId(response, "creative_1")
                /\ pc' = "ad"
                /\ UNCHANGED result
    /\ UNCHANGED <<account, inflight>>
    /\ UNCHANGED <<raw, data, total_budget_cents, campaign_id, daily_budget,
                   ad_set_start, ad_set_end, page_id, ad_set_id, ad_id>>

----------------------------------------------------------------------------
(* Step 6: ad, and step 7: the success body *)

\* the ad payload with the two identifiers in each other's place
ad_payload_Swapped == [adset_id |-> creative_id, creative_id |-> ad_set_id]

ad_payload == [adset_id |-> ad_set_id, creative_id |-> creative_id]

SuccessBody(ad) ==
    [status |-> 200, detail |-> <<"success">>, campaign_id |-> campaign_id,
     ad_set_id |-> ad_set_id, creative_id |-> creative_id, ad_id |-> ad]

\* lines 458-495
CreateAd ==
    /\ pc = "ad"
    /\ \E response \in PostResponses :
         LET post == Call("ad", ad_payload, response) IN
         CASE response.kind = "transport" ->
                /\ calls' = Append(calls, post)
                /\ result' = Unhandled
                /\ UNCHANGED ad_id
           [] response.kind = "http_error" ->
                \E del \in DeleteResponses :
                   /\ calls' = calls \o <<post, Rollback(del)>>
                   /\ result' = RollbackThenRaise(del, "Erro ao criar Ad: ", response)
                   /\ UNCHANGED ad_id
           [] response.kind = "ok" /\ response.body = "notjson" ->
                /\ calls' = Append(calls, post)
                /\ result' = Unhandled
                /\ UNCHANGED ad_id
           [] OTHER ->
                /\ calls' = Append(calls, post)
                /\ ad_id' = GetId(response, "ad_1")
                /\ result' = SuccessBody(ad_id')
    /\ pc' = "done"
    /\ UNCHANGED <<account, inflight>>
    /\ UNCHANGED <<raw, data, total_budget_cents, campaign_id, daily_budget,
                   ad_set_start, ad_set_end, page_id, ad_set_id, creative_spec,
                   creative_id>>

----------------------------------------------------------------------------
Next ==
    \/ ParseRequest
    \/ CheckBalance
    \/ CreateCampaign
    \/ ComputeSchedule
    \/ GetPage
    \/ CreateAdSet
    \/ CreateCreative
    \/ CreateAd

Spec == Init /\ [][Next]_vars

\* the same handler on the bodies of the normalizer specification
SpecNormalize == NormInit /\ [][Next]_vars

----------------------------------------------------------------------------
(* The media resolver on its own: every combination of the media fields *)

MediaInit ==
    /\ pc = "media"
    /\ raw \in MediaRequests
    /\ data = CampaignRequest(raw)
    /\ total_budget_cents = data.budget
    /\ campaign_id = Unset
    /\ daily_budget = 0
    /\ ad_set_start = UnsetRec
    /\ ad_set_end = UnsetRec
    /\ page_id = Unset
    /\ ad_set_id = Unset
    /\ creative_spec = UnsetRec
    /\ creative_id = Unset
    /\ ad_id = Unset
    /\ calls = <<>>
    /\ result = NoResult
    /\ account = NoAccount
    /\ inflight = NoRequests

\* lines 367-415 alone
ResolveMedia ==
    /\ pc = "media"
    /\ creative_spec' = SelectMedia(data)
    /\ pc' = "resolved"
    /\ UNCHANGED <<account, inflight>>
    /\ UNCHANGED <<raw, data, total_budget_cents, campaign_id, daily_budget,
                   ad_set_start, ad_set_end, page_id, ad_set_id, creative_id,
                   ad_id, calls, result>>

MediaNext == ResolveMedia

SpecMedia == MediaInit /\ [][MediaNext]_vars

----------------------------------------------------------------------------
(* Two requests against one account: each runs the balance check of line   *)
(* 234 and the campaign call of line 248; the account is the platform's.   *)

Requests == {1, 2}

RaceBudgets == {500, 700, 1200}

RaceCaps == {<<"1", "2", "0", "0">>}
RaceSpent == {<<"0">>, <<"7", "0", "0">>}

NotRead == [spend_cap |-> <<>>, amount_spent |-> <<>>]

\* the answer of GET act_<id>?fields=spend_cap,amount_spent for the account
AccountAnswer ==
    [kind |-> "json", status |-> 200,
     json |-> ("spend_cap" :> account.spend_cap)
                @@ ("amount_spent" :> account.amount_spent)]

RaceInit ==
    /\ pc = "race"
    /\ raw = MakeRaw([kind |-> "num", cents |-> 0],
                     [valid |-> TRUE, day |-> 0], [valid |-> TRUE, day |-> 1],
                     <<>>, <<>>, <<>>, <<>>)
    /\ data = NoData
    /\ total_budget_cents = 0
    /\ campaign_id = Unset
    /\ daily_budget = 0
    /\ ad_set_start = UnsetRec
    /\ ad_set_end = UnsetRec
    /\ page_id = Unset
    /\ ad_set_id = Unset
    /\ creative_spec = UnsetRec
    /\ creative_id = Unset
    /\ ad_id = Unset
    /\ calls = <<>>
    /\ result = NoResult
    /\ \E c \in RaceCaps, a \in RaceSpent :
          account = [spend_cap |-> c, amount_spent |-> a, campaigns |-> {}]
    /\ inflight \in [Requests ->
          [pc : {"balance"}, total_budget_cents : RaceBudgets,
           seen : {NotRead}, result : {NoResult}]]

\* the budgets of the requests that passed the check
Committed ==
    LET b(i) == IF inflight[i].pc \in {"campaign", "created"}
                THEN inflight[i].total_budget_cents ELSE 0
    IN  b(1) + b(2)

\* a balance check that holds back what the other request was granted
RaceCheckBalance_Reserving(i) ==
    /\ pc = "race"
    /\ inflight[i].pc = "balance"
    /\ LET raised == check_account_balance(AccountAnswer,
                          inflight[i].total_budget_cents + Committed) IN
         inflight' = [inflight EXCEPT ![i] =
             [pc |-> IF raised = NoResult THEN "campaign" ELSE "done",
              total_budget_cents |-> @.total_budget_cents,
              seen |-> [spend_cap |-> account.spend_cap,
                        amount_spent |-> account.amount_spent],
              result |-> raised]]
    /\ UNCHANGED account
    /\ UNCHANGED <<pc, raw, data, total_budget_cents, campaign_id, daily_budget,
                   ad_set_start, ad_set_end, page_id, ad_set_id, creative_spec,
                   creative_id, ad_id, calls, result>>

\* line 234 for request i: the account is read and the request's own budget
\* is compared with spend_cap - amount_spent; nothing is written
RaceCheckBalance(i) ==
    /\ pc = "race"
    /\ inflight[i].pc = "balance"
    /\ LET raised == check_account_balance(AccountAnswer,
                          inflight[i].total_budget_cents) IN
         inflight' = [inflight EXCEPT ![i] =
             [pc |-> IF raised = NoResult THEN "campaign" ELSE "done",
              total_budget_cents |-> @.total_budget_cents,
              seen |-> [spend_cap |-> account.spend_cap,
                        amount_spent |-> account.amount_spent],
              result |-> raised]]
    /\ UNCHANGED account
    /\ UNCHANGED <<pc, raw, data, total_budget_cents, campaign_id, daily_budget,
                   ad_set_start, ad_set_end, page_id, ad_set_id, creative_spec,
                   creative_id, ad_id, calls, result>>

\* lines 246-257 for request i: a success answer means the platform now has
\* the campaign
RaceCreateCampaign(i) ==
    /\ pc = "race"
    /\ inflight[i].pc = "campaign"
    /\ \E response \in PostResponses :
         CASE response.kind = "transport" ->
                /\ inflight' = [inflight EXCEPT ![i].pc = "done",
                                                ![i].result = Unhandled]
                /\ UNCHANGED account
           [] response.kind = "http_error" ->
                /\ inflight' = [inflight EXCEPT ![i].pc = "done",
                       ![i].result = HTTPException(400,
                           <<"Erro ao criar campanha: ", extract_fb_error(response)>>)]
                /\ UNCHANGED account
           [] response.kind = "ok" /\ response.body = "notjson" ->
                /\ inflight' = [inflight EXCEPT ![i].pc = "done",
                                                ![i].result = Unhandled]
                /\ account' = [account EXCEPT !.campaigns = @ \cup {i}]
           [] OTHER ->
                /\ inflight' = [inflight EXCEPT ![i].pc = "created"]
                /\ account' = [account EXCEPT !.campaigns = @ \cup {i}]
    /\ UNCHANGED <<pc, raw, data, total_budget_cents, campaign_id, daily_budget,
                   ad_set_start, ad_set_end, page_id, ad_set_id, creative_spec,
                   creative_id, ad_id, calls, result>>

\* the platform's own accounting: amount_spent grows once a campaign of the
\* account delivers, at a time the handler does not control
PlatformSpends ==
    /\ pc = "race"
    /\ account.campaigns # {}
    /\ account.amount_spent = <<"0">>
    /\ account' = [account EXCEPT !.amount_spent = <<"7", "0", "0">>]
    /\ UNCHANGED inflight
    /\ UNCHANGED <<pc, raw, data, total_budget_cents, campaign_id, daily_budget,
                   ad_set_start, ad_set_end, page_id, ad_set_id, creative_spec,
                   creative_id, ad_id, calls, result>>

RaceNext ==
    \/ \E i \in Requests : RaceCheckBalance(i)
    \/ \E i \in Requests : RaceCreateCampaign(i)
    \/ PlatformSpends

SpecRace == RaceInit /\ [][RaceNext]_vars

----------------------------------------------------------------------------
(* Reading the log of remote calls *)

CreationOps == {"campaign", "adset", "creative", "ad"}

OpsAt(op) == {k \in 1..Len(calls) : calls[k].op = op}

Issued(op) == OpsAt(op) # {}

\* the campaign creation call was answered with a success status
CampaignSucceeded ==
    \E k \in OpsAt("campaign") : calls[k].outcome.kind = "ok"

\* ... and create_campaign went on to the schedule step
CampaignReturned ==
    \E k \in OpsAt("campaign") :
        calls[k].outcome.kind = "ok" /\ calls[k].outcome.body # "notjson"

HttpErrorAt(k) ==
    /\ calls[k].op \in {"adset", "creative", "ad"}
    /\ calls[k].outcome.kind = "http_error"

StageText(op) ==
    CASE op = "adset" -> "Erro ao criar Ad Set: "
      [] op = "creative" -> "Erro ao criar Ad Creative: "
      [] op = "ad" -> "Erro ao criar Ad: "
      [] OTHER -> "Erro ao criar campanha: "

DeleteOfCampaignIssued ==
    \E k \in OpsAt("delete") : calls[k].arg = campaign_id

----------------------------------------------------------------------------
(* C1 *)

\* C1: once the campaign creation call has succeeded, a request that ends
\* with an error has issued a DELETE of the created campaign.
C1_FailureAfterCampaignIsRolledBack ==
    (pc = "done" /\ CampaignReturned /\ result.status # 200)
        => DeleteOfCampaignIssued

----------------------------------------------------------------------------
(* C2 *)

\* C2: when the ad set, creative or ad call is answered with an HTTP error
\* status, exactly one DELETE is issued, it targets the campaign id, no
\* creation call follows, and the error surfaced is 400 with the message of
\* the stage that failed.
C2_HttpErrorRollsBackOnceAndSurfacesStage ==
    \A k \in 1..Len(calls) :
        HttpErrorAt(k) =>
            /\ Cardinality(OpsAt("delete")) = 1
            /\ \A j \in OpsAt("delete") : calls[j].arg = campaign_id
            /\ \A j \in (k + 1)..Len(calls) : calls[j].op \notin CreationOps
            /\ pc = "done"
            /\ result = HTTPException(400,
                   <<StageText(calls[k].op), extract_fb_error(calls[k].outcome)>>)

----------------------------------------------------------------------------
(* C3 *)

\* the request's schedule breaks one of the two rules of step 2
ScheduleViolation ==
    /\ data.parsed
    /\ data.initial_date.valid /\ data.final_date.valid
    /\ LET diff == data.final_date.day - data.initial_date.day
           num_days == IF diff <= 0 THEN 1 ELSE diff
       IN  \/ total_budget_cents \div num_days <= MinDailyBudget
           \/ diff < 1

\* C3: a request whose per-day budget does not exceed 576 or whose span is
\* under 24 hours never reaches the ad set call, and ends with status 400
\* after the campaign was rolled back.
C3_ScheduleViolationStopsBeforeAdSet ==
    (CampaignReturned /\ ScheduleViolation) =>
        /\ ~Issued("adset")
        /\ pc \notin {"page", "adset", "creative", "ad"}
        /\ pc = "done" => (result.status = 400 /\ DeleteOfCampaignIssued)

----------------------------------------------------------------------------
(* C4 *)

PageListEmpty ==
    \E k \in OpsAt("pages") :
        /\ calls[k].outcome.kind = "json" /\ calls[k].outcome.status = 200
        /\ "data" \in DOMAIN calls[k].outcome.json
        /\ calls[k].outcome.json["data"] = <<>>

\* C4: an empty page listing ends the request with status 533, and neither
\* the creative nor the ad creation call is issued.
C4_EmptyPageListIsTerminal ==
    PageListEmpty =>
        /\ pc = "done"
        /\ result.status = 533
        /\ ~Issued("creative") /\ ~Issued("ad")

W4_EmptyPageListSeen == PageListEmpty /\ pc = "done" /\ CampaignReturned

----------------------------------------------------------------------------
(* C5 *)

\* a 200 balance answer without one of the two fields, or with a value that
\* is no integer
BalanceMalformed ==
    \E k \in OpsAt("balance") :
        LET r == calls[k].outcome IN
        /\ r.kind = "json" /\ r.status = 200
        /\ \/ "spend_cap" \notin DOMAIN r.json
           \/ "amount_spent" \notin DOMAIN r.json
           \/ \E f \in DOMAIN r.json : ~IntParses(r.json[f])

\* C5: a malformed 200 balance answer ends the request with status 402 and
\* no creation call follows.
C5_BalanceFailsClosed ==
    BalanceMalformed =>
        /\ pc = "done"
        /\ result.status = 402
        /\ \A op \in CreationOps : ~Issued(op)

W5_MalformedBalanceSeen ==
    /\ BalanceMalformed
    /\ pc = "done"
    /\ "amount_spent" \in DOMAIN calls[1].outcome.json
    /\ "spend_cap" \notin DOMAIN calls[1].outcome.json

----------------------------------------------------------------------------
(* C6 *)

BalanceSufficient(r, required) ==
    /\ r.kind = "json" /\ r.status = 200
    /\ "spend_cap" \in DOMAIN r.json /\ "amount_spent" \in DOMAIN r.json
    /\ IntParses(r.json["spend_cap"]) /\ IntParses(r.json["amount_spent"])
    /\ IntOf(r.json["spend_cap"]) - IntOf(r.json["amount_spent"]) >= required

\* C6: the first remote call of a request is the balance check, and a
\* creation call is issued only after that check answered 200 with
\* spend_cap - amount_spent >= the total budget in minor units.
C6_BalanceCheckedBeforeAnyCreation ==
    /\ calls # <<>> => calls[1].op = "balance"
    /\ (\E op \in CreationOps : Issued(op)) =>
           /\ Cardinality(OpsAt("balance")) = 1
           /\ BalanceSufficient(calls[1].outcome, data.budget)

W6_CreationAfterBalance ==
    /\ Issued("ad")
    /\ data.budget = 500
    /\ IntOf(calls[1].outcome.json["amount_spent"]) = 700

----------------------------------------------------------------------------
(* C7 *)

\* C7: a success body carries four identifiers the platform returned, none
\* of them empty.
C7_SuccessBodyHasFourIdentifiers ==
    result.status = 200 =>
        /\ result.campaign_id \notin {None, Unset, ""}
        /\ result.ad_set_id \notin {None, Unset, ""}
        /\ result.creative_id \notin {None, Unset, ""}
        /\ result.ad_id \notin {None, Unset, ""}

----------------------------------------------------------------------------
(* C8 *)

\* C8: when the compensating DELETE fails, the error surfaced is still the
\* error of the creation stage, status 400 with that stage's message.
C8_FailedDeleteKeepsOriginalError ==
    \A k \in OpsAt("delete") :
        calls[k].outcome # "ok" =>
            result = HTTPException(400,
                <<StageText(calls[k - 1].op), extract_fb_error(calls[k - 1].outcome)>>)

----------------------------------------------------------------------------
(* C9 and C10, under SpecMedia *)

NonBlank(s) == \E k \in 1..Len(s) : s[k] # " "

Shape(spec) ==
    IF "video_data" \in DOMAIN spec THEN "video"
    ELSE IF "child_attachments" \in DOMAIN spec["link_data"] THEN "carousel"
    ELSE IF spec["link_data"].picture = fallback_image THEN "placeholder"
    ELSE "image"

\* C9: the resolved spec has exactly one shape, chosen by precedence: video,
\* then image, then a carousel with a non-blank URL, then the placeholder.
C9_MediaPrecedence ==
    pc = "resolved" =>
        LET v == NonBlank(data.video)
            i == NonBlank(data.image)
            c == \E k \in 1..Len(data.carrossel) : NonBlank(data.carrossel[k])
        IN  /\ Cardinality(DOMAIN creative_spec) = 1
            /\ DOMAIN creative_spec \subseteq {"video_data", "link_data"}
            /\ Shape(creative_spec) =
                 (IF v THEN "video" ELSE IF i THEN "image"
                  ELSE IF c THEN "carousel" ELSE "placeholder")

W9_VideoAndImageGiveVideo ==
    /\ pc = "resolved"
    /\ NonBlank(data.video) /\ NonBlank(data.image)
    /\ Shape(creative_spec) = "video"

\* C10: a request whose only media is single_image resolves to an image
\* spec whose picture is that URL.
C10_SingleImageIsUsed ==
    (/\ pc = "resolved"
     /\ NonBlank(data.single_image)
     /\ ~NonBlank(data.video) /\ ~NonBlank(data.image)
     /\ \A k \in 1..Len(data.carrossel) : ~NonBlank(data.carrossel[k]))
        => /\ Shape(creative_spec) = "image"
           /\ creative_spec["link_data"].picture = strip(data.single_image)

----------------------------------------------------------------------------
(* C11, under SpecMedia *)

Attachments == creative_spec["link_data"].child_attachments

CarouselSelected ==
    /\ pc = "resolved"
    /\ Shape(creative_spec) = "carousel"

\* every attachment carries the same link and the same message
SameLinkAndMessage ==
    \A j \in 1..Len(Attachments) :
        /\ Attachments[j].link = Attachments[1].link
        /\ Attachments[j].message = Attachments[1].message

\* p is s without its leading and trailing blanks
IsTrimOf(p, s) ==
    \E a \in 1..Len(s) : \E b \in a..Len(s) :
        /\ p = SubSeq(s, a, b)
        /\ s[a] # " " /\ s[b] # " "
        /\ \A k \in 1..Len(s) : (k < a \/ k > b) => s[k] = " "

\* C11 as stated: in the carousel branch the attachments are the supplied
\* carousel entries, one each and in input order (surrounding blanks of a
\* URL aside), with one link and one message.
C11_AttachmentsAreTheSuppliedList ==
    CarouselSelected =>
        /\ Len(Attachments) = Len(data.carrossel)
        /\ \A j \in 1..Len(Attachments) :
               j <= Len(data.carrossel) =>
                   IsTrimOf(Attachments[j].picture, data.carrossel[j])
        /\ SameLinkAndMessage

NonBlankEntries == {k \in 1..Len(data.carrossel) : NonBlank(data.carrossel[k])}

\* position among the non-blank entries
Rank(k) == Cardinality({i \in NonBlankEntries : i <= k})

\* C11 as amended: in the carousel branch the attachments are the non-blank
\* carousel entries, each without its surrounding blanks, one each and in
\* input order, all with the same link and the same message.
C11_AttachmentsAreTheNonBlankEntries ==
    CarouselSelected =>
        /\ Len(Attachments) = Cardinality(NonBlankEntries)
        /\ \A k \in NonBlankEntries :
               IsTrimOf(Attachments[Rank(k)].picture, data.carrossel[k])
        /\ SameLinkAndMessage
        /\ \A j \in 1..Len(Attachments) :
               /\ Attachments[j].link = creative_spec["link_data"].link
               /\ Attachments[j].message = creative_spec["link_data"].message

W11_ThreeUrlsThreeAttachments ==
    /\ CarouselSelected
    /\ Len(data.carrossel) = 3
    /\ Len(Attachments) = 3
    /\ Attachments[1].picture # Attachments[2].picture

----------------------------------------------------------------------------
(* Claims about the request normalizer, checked under SpecNormalize *)

RawObjective == IF "objective" \in DOMAIN raw THEN raw["objective"] ELSE "(absent)"

CampaignObjectives == {calls[k].arg.objective : k \in OpsAt("campaign")}

RecognisedLabels == {"Vendas", "Promover site/app", "Leads", "Alcance de marca"}

ThousandsBudget == Str(<<"$", "1", ",", "2", "3", "4", ".", "5", "6">>)

\* C13 as stated: the budget string "$1,234.56" is normalized to 123456 minor
\* units and the request is not rejected
C13_ThousandsBudgetNormalizes ==
    (raw["budget"] = ThousandsBudget /\ pc # "parse")
        => (data # NoData /\ total_budget_cents = 123456 /\ result.status # 400)

\* C14 as stated: a budget, min_salary or max_salary string that cannot be
\* parsed ends the request, before any remote call, with an error whose
\* message is the one the validator of an offending field raised
C14_ParseErrorNamesField ==
    (ValidatorErrors(raw) # {} /\ pc # "parse")
        => /\ calls = <<>>
           /\ result.status \in {400, 422}
           /\ result.detail \in ValidatorErrors(raw)

----------------------------------------------------------------------------
(* Claims about the pipeline, checked under Spec *)

\* C16 as stated: a creative built from a video is preceded by a video upload
\* call and by one to five calls of the thumbnail endpoint
C16_VideoIsUploadedAndPolled ==
    \A k \in OpsAt("creative") :
        "video_data" \in DOMAIN calls[k].arg =>
            /\ \E u \in OpsAt("video_upload") : u < k
            /\ Cardinality({t \in OpsAt("thumbnail") : t < k}) \in 1..5

AnswerOf(k) == calls[k].outcome

\* C17: each of the four creation calls is issued at most once; the ad set
\* call follows a campaign call answered with success and carries the id of
\* that answer; the creative call follows an ad set call answered with
\* success; the ad call follows a creative call answered with success and
\* carries the ids of the ad set answer and of the creative answer
C17_CreationCallsInOrder ==
    /\ \A op \in CreationOps : Cardinality(OpsAt(op)) <= 1
    /\ \A k \in OpsAt("adset") : \E j \in OpsAt("campaign") :
          /\ j < k
          /\ AnswerOf(j).kind = "ok"
          /\ calls[k].arg.campaign_id = GetId(AnswerOf(j), "campaign_1")
    /\ \A k \in OpsAt("creative") : \E j \in OpsAt("adset") :
          j < k /\ AnswerOf(j).kind = "ok"
    /\ \A k \in OpsAt("ad") : \E j \in OpsAt("creative") : \E i \in OpsAt("adset") :
          /\ i < j /\ j < k
          /\ AnswerOf(j).kind = "ok"
          /\ calls[k].arg.adset_id = GetId(AnswerOf(i), "adset_1")
          /\ calls[k].arg.creative_id = GetId(AnswerOf(j), "creative_1")

\* C17 witness: the four creation calls were issued and every answer
\* carried an id
W17_FourCallsWithIds ==
    /\ \A op \in CreationOps : Issued(op)
    /\ result.status = 200
    /\ ad_set_id = "adset_1" /\ creative_id = "creative_1"

InclusiveDays ==
    LET diff == data.final_date.day - data.initial_date.day
    IN  IF diff + 1 < 1 THEN 1 ELSE diff + 1

\* C18 as stated: the daily_budget of the ad set call is the total budget
\* integer-divided by the number of days from initial_date to final_date,
\* both counted, and by 1 at least
C18_DailyBudgetOverInclusiveDays ==
    \A k \in OpsAt("adset") :
        (data.initial_date.valid /\ data.final_date.valid) =>
            calls[k].arg.daily_budget = total_budget_cents \div InclusiveDays

CampaignFailed ==
    \E k \in OpsAt("campaign") : AnswerOf(k).kind \in {"http_error", "transport"}

C20_BudgetPositiveAndDatesOrdered ==
    /\ (Issued("campaign") \/ Issued("adset")) => total_budget_cents > 0
    /\ (Issued("adset") /\ data.initial_date.valid /\ data.final_date.valid)
          => data.initial_date.day <= data.final_date.day

----------------------------------------------------------------------------
(* Claim about two requests on one account, checked under SpecRace *)

\* spend_cap - amount_spent as request i read it
AvailableSeen(i) ==
    IntOf(inflight[i].seen.spend_cap) - IntOf(inflight[i].seen.amount_spent)

\* C15: the balance check of a request is decided by that request's own
\* budget and the account as it was read, whatever the other request was
\* granted: a request goes on to campaign creation exactly when its budget
\* does not exceed spend_cap - amount_spent as read, and is refused with
\* status 402 exactly when it does; the check writes nothing to the account
C15_CheckReservesNothing ==
    \A i \in DOMAIN inflight :
        /\ inflight[i].pc \in {"campaign", "created"}
              => inflight[i].total_budget_cents <= AvailableSeen(i)
        /\ (inflight[i].pc = "done" /\ inflight[i].result.status = 402)
              => inflight[i].total_budget_cents > AvailableSeen(i)
        /\ inflight[i].pc \in {"balance", "campaign"}
              => i \notin account.campaigns

\* C15 witness: both requests passed the check and created their campaigns,
\* and their budgets together exceed spend_cap - amount_spent as each read it
W15_BothCreatedOverCommitted ==
    /\ DOMAIN inflight = Requests
    /\ \A i \in Requests : inflight[i].pc = "created"
    /\ account.campaigns = Requests
    /\ \A i \in Requests :
          inflight[1].total_budget_cents + inflight[2].total_budget_cents
              > AvailableSeen(i)

----------------------------------------------------------------------------
(* Claims about the schedule fallback and the DELETE, checked under Spec *)

NumDays ==
    LET diff == data.final_date.day - data.initial_date.day
    IN  IF diff <= 0 THEN 1 ELSE diff

\* C21 as stated: for every ad set call of a request whose dates parse,
\* daily_budget times the number of days (the difference of the dates, 1 at
\* least) does not exceed the total budget in minor units
C21_DailyBudgetTimesDaysWithinTotal ==
    \A k \in OpsAt("adset") :
        (data.initial_date.valid /\ data.final_date.valid) =>
            calls[k].arg.daily_budget * NumDays <= total_budget_cents

UnparseableDate ==
    /\ data.parsed
    /\ ~(data.initial_date.valid /\ data.final_date.valid)

\* C22: for a request with a date that is not MM/DD/YYYY the schedule step
\* ends without an error and without a DELETE and hands over to page
\* resolution; from there on daily_budget is the whole budget and the two
\* times are the raw date strings, and every ad set call carries them
C22_UnparseableDateFallsBack ==
    UnparseableDate =>
        /\ pc = "page" => (result = NoResult /\ ~Issued("delete")
                            /\ calls[Len(calls)].op = "campaign")
        /\ pc \in {"page", "adset", "creative", "ad"} =>
              /\ daily_budget = total_budget_cents
              /\ ad_set_start = [kind |-> "raw", unix |-> 0,
                                 raw |-> data.initial_date]
              /\ ad_set_end = [kind |-> "raw", unix |-> 0,
                               raw |-> data.final_date]
        /\ \A k \in OpsAt("adset") :
              /\ calls[k].arg.daily_budget = total_budget_cents
              /\ calls[k].arg.start_time.kind = "raw"
              /\ calls[k].arg.start_time.raw = data.initial_date
              /\ calls[k].arg.end_time.kind = "raw"
              /\ calls[k].arg.end_time.raw = data.final_date
              /\ \A j \in OpsAt("delete") : j > k

\* C22 witness: an ad set call was issued for a request with an unparseable
\* date and a budget that is not zero
W22_AdSetAfterUnparseableDate ==
    /\ UnparseableDate
    /\ total_budget_cents > 0
    /\ Issued("adset")

\* C23: a DELETE follows a campaign call of the request that was answered
\* with success and targets the id of that answer; the request that issued
\* it is over with an error status; a request that returned the success
\* body issued none; no request issues two
C23_DeleteOnlyAfterCampaignAndOnError ==
    /\ Cardinality(OpsAt("delete")) <= 1
    /\ \A k \in OpsAt("delete") :
          /\ \E j \in OpsAt("campaign") :
                /\ j < k
                /\ calls[j].outcome.kind = "ok"
                /\ calls[k].arg = GetId(calls[j].outcome, "campaign_1")
          /\ pc = "done"
          /\ result.status \in {400, 500}
    /\ result.status = 200 => ~Issued("delete")

\* C23 witness: a request ended with status 400 and one DELETE in its log
W23_OneDeleteAndError ==
    /\ Cardinality(OpsAt("delete")) = 1
    /\ pc = "done" /\ result.status = 400

====
